---- MODULE Spec2Model ----
(***************************************************************************)
(* N-Reinas (src/main.py): class NReinas with the exhaustive backtracking  *)
(* solver resolver()/_backtrack() and the min-conflicts solver             *)
(* resolver_probabilista().  A placement is a function from the columns    *)
(* 0..n-1 to rows; -1 is the "unassigned" sentinel.                        *)
(***************************************************************************)
EXTENDS Integers, Sequences, FiniteSets, TLC

\* ------------------------------------------------------------------ bounds
\* Largest board of the counting specification (SpecCuenta).
MaxNCuenta == 8
\* Largest board of the backtracking specification (Spec).
MaxN == 6
\* Number of resolver() calls made on one solver.
MaxCalls == 2
\* Largest board, step budget and restart budget of SpecProb.
MaxNProb == 4
MaxPasos == 2
MaxReinicios == 1
\* SpecSeed: largest board, and most draws one call may make from the
\* generator (reinicios * (n + 2 * max_pasos)).
MaxNSeed == 4
MaxSorteosSeed == 6

\* ------------------------------------------------------------------ state
VARIABLES
    n,            \* self.n of the solver instance; 0 while no instance exists
    soluciones,   \* self.soluciones: sequence of placements
    exc,          \* exception the constructor call just made raised, or "none"
    intento,      \* arguments [n, seed] of the constructor call just made
    rng,          \* state of the process-wide generator of module random
    memo,         \* outputs the seeded generator has produced, by generator state
    pc,           \* control position of the caller / running method
    op,           \* the step taken last
    solucion,     \* local `solucion` of resolver / resolver_probabilista
    stack,        \* call stack of _backtrack: frames, innermost last
    calls,        \* resolver() calls completed on the current solver
    primera,      \* history: self.soluciones when the first resolver() returned
    max_pasos,    \* argument max_pasos of the running resolver_probabilista
    restantes,    \* iterations of the outer loop `for _ in range(reinicios)` still to start
    paso,         \* iterations of the inner loop (line 69) completed in this restart
    col,          \* local `col` of resolver_probabilista (line 73)
    resultado,    \* value returned by resolver_probabilista: <<>> is None, <<p>> is p
    visto,        \* history: some placement held during this call had no conflict
    creado,       \* history: arguments [n, seed] of the constructor call that built the solver
    fresco,       \* history: no resolver_probabilista call since the solver was built
    corrida,      \* caller: resolver_probabilista calls returned so far
    reg,          \* caller: inputs and result of the first returned call
    llamada       \* caller: arguments [max_pasos, reinicios] of the last call

vars == <<n, soluciones, exc, intento, rng, memo, pc, op, solucion, stack, calls,
          primera, max_pasos, restantes, paso, col, resultado, visto,
          creado, fresco, corrida, reg, llamada>>

probVars == <<max_pasos, restantes, paso, col, resultado, visto>>
caller == <<corrida, reg, llamada>>

\* ---------------------------------------------------------------- helpers
Abs(x) == IF x < 0 THEN -x ELSE x

Cols(k) == 0 .. (k - 1)

\* Optional[int]: <<>> is None, <<s>> is the integer s.
None == << >>

\* [-1] * self.n
Vacia(k) == [c \in Cols(k) |-> -1]

\* self.soluciones.clear()
LimpiarOlvida(s) == s
Limpiar(s) == << >>

\* es_valida(solucion, fila, columna): no column left of `columna` holds the
\* same row or a row on the same diagonal.
EsValidaSinDiagonal(sol, fila, columna) ==
    \A c \in Cols(columna) : ~(sol[c] = fila)
EsValidaUnaDiagonal(sol, fila, columna) ==
    \A c \in Cols(columna) :
        ~(sol[c] = fila \/ sol[c] - fila = c - columna)
EsValida(sol, fila, columna) ==
    \A c \in Cols(columna) :
        ~(sol[c] = fila \/ Abs(sol[c] - fila) = Abs(c - columna))

\* The first row >= desde that es_valida accepts for `columna`, or k when the
\* loop `for fila in range(self.n)` (line 42) runs out.
SiguienteFila(sol, columna, desde, k) ==
    LET ok == {f \in desde .. (k - 1) : EsValida(sol, f, columna)}
    IN  IF ok = {} THEN k ELSE CHOOSE f \in ok : \A g \in ok : f <= g

\* self.soluciones.append(solucion.copy())
AgregarAlFrente(s, sol) == <<sol>> \o s
Agregar(s, sol) == Append(s, sol)

\* solucion[columna] = -1  # deshacer
DeshacerOlvidado(sol, columna) == sol
Deshacer(sol, columna) == [sol EXCEPT ![columna] = -1]

\* random.seed(seed): the generator state is a function of the seed alone.
Sembrar(seed) == [seed |-> <<seed>>, ks |-> << >>]

\* A frame of _backtrack(columna, solucion): `fila` is the loop variable,
\* `pc` is "loop" between iterations and "undo" while the recursive call of
\* line 45 is running, `entrada` is the placement the call was entered with.
Frame(columna, sol) ==
    [columna |-> columna, fila |-> 0, pc |-> "loop", entrada |-> sol]

Top == stack[Len(stack)]

Pop(st) == SubSeq(st, 1, Len(st) - 1)

\* No constructor call is being looked at.
SinIntento == [n |-> 0, seed |-> None]

\* ------------------------------------------------------------------- Init
Init ==
    /\ n = 0
    /\ soluciones = << >>
    /\ exc = "none"
    /\ intento = SinIntento
    /\ rng = [seed |-> None, ks |-> << >>]
    /\ memo = << >>
    /\ pc = "idle"
    /\ op = "init"
    /\ solucion = << >>
    /\ stack = << >>
    /\ calls = 0
    /\ primera = << >>
    /\ max_pasos = 0
    /\ restantes = 0
    /\ paso = 0
    /\ col = 0
    /\ resultado = None
    /\ visto = FALSE
    /\ creado = [n |-> 0, seed |-> None]
    /\ fresco = FALSE
    /\ corrida = 0
    /\ reg = [n |-> 0, seed |-> None, max_pasos |-> 0, reinicios |-> 0,
              resultado |-> None]
    /\ llamada = [max_pasos |-> 0, reinicios |-> 0]

\* ------------------------------------------------------- NReinas.__init__
\* NReinas(nn, seed): raises ValueError before any assignment when nn < 1;
\* otherwise sets n, an empty solution list, and seeds the shared generator
\* when a seed is given.  A new instance replaces the one the caller held.
ConstruirSinSembrar(nn, seed) ==
    /\ pc = "idle"
    /\ intento' = [n |-> nn, seed |-> seed]
    /\ op' = "construir"
    /\ IF nn < 1
       THEN /\ exc' = "ValueError"
            /\ UNCHANGED <<n, soluciones, rng, calls, primera, creado, fresco>>
       ELSE /\ exc' = "none"
            /\ n' = nn
            /\ soluciones' = << >>
            /\ rng' = rng
            /\ calls' = 0
            /\ primera' = << >>
            /\ creado' = [n |-> nn, seed |-> seed]
            /\ fresco' = TRUE
    /\ UNCHANGED <<memo, pc, solucion, stack, probVars, caller>>
ConstruirSiembraAntes(nn, seed) ==
    /\ pc = "idle"
    /\ intento' = [n |-> nn, seed |-> seed]
    /\ op' = "construir"
    /\ rng' = IF seed # None THEN Sembrar(seed[1]) ELSE rng
    /\ IF nn < 1
       THEN /\ exc' = "ValueError"
            /\ UNCHANGED <<n, soluciones, calls, primera, creado, fresco>>
       ELSE /\ exc' = "none"
            /\ n' = nn
            /\ soluciones' = << >>
            /\ calls' = 0
            /\ primera' = << >>
            /\ creado' = [n |-> nn, seed |-> seed]
            /\ fresco' = TRUE
    /\ UNCHANGED <<memo, pc, solucion, stack, probVars, caller>>
Construir(nn, seed) ==
    /\ pc = "idle"
    /\ intento' = [n |-> nn, seed |-> seed]
    /\ op' = "construir"
    /\ IF nn < 1
       THEN /\ exc' = "ValueError"
            /\ UNCHANGED <<n, soluciones, rng, calls, primera, creado, fresco>>
       ELSE /\ exc' = "none"
            /\ n' = nn
            /\ soluciones' = << >>
            /\ rng' = IF seed # None THEN Sembrar(seed[1]) ELSE rng
            /\ calls' = 0
            /\ primera' = << >>
            /\ creado' = [n |-> nn, seed |-> seed]
            /\ fresco' = TRUE
    /\ UNCHANGED <<memo, pc, solucion, stack, probVars, caller>>

\* ------------------------------------------------------- NReinas.resolver
\* resolver(): limpiar(), solucion = [-1] * n, enter _backtrack(0, solucion).
Resolver ==
    /\ pc = "idle"
    /\ n >= 1
    /\ calls < MaxCalls
    /\ soluciones' = Limpiar(soluciones)
    /\ solucion' = Vacia(n)
    /\ stack' = << Frame(0, Vacia(n)) >>
    /\ pc' = "backtrack"
    /\ op' = "resolver"
    /\ exc' = "none"
    /\ intento' = SinIntento
    /\ UNCHANGED <<n, rng, memo, calls, primera, probVars, creado, fresco, caller>>

\* The innermost _backtrack call returns; when it was the outermost one,
\* resolver() returns to the caller and its local `solucion` is gone.
Retornar(sols) ==
    /\ stack' = Pop(stack)
    /\ IF Len(stack) = 1
       THEN /\ pc' = "idle"
            /\ calls' = calls + 1
            /\ primera' = IF calls = 0 THEN sols ELSE primera
            /\ solucion' = << >>
       ELSE UNCHANGED <<pc, calls, primera, solucion>>

\* Lines 39-41: columna == n, store a copy of the placement and return.
BtBase ==
    /\ pc = "backtrack"
    /\ Top.pc = "loop"
    /\ Top.columna = n
    /\ soluciones' = Agregar(soluciones, solucion)
    /\ Retornar(soluciones')
    /\ op' = "append"
    /\ UNCHANGED <<n, exc, intento, rng, memo, probVars, creado, fresco, caller>>

\* Lines 42-45: the loop advances to the next row es_valida accepts, assigns
\* it and calls _backtrack(columna + 1, solucion).
BtProbar ==
    /\ pc = "backtrack"
    /\ Top.pc = "loop"
    /\ Top.columna < n
    /\ LET f == SiguienteFila(solucion, Top.columna, Top.fila, n)
       IN  /\ f < n
           /\ solucion' = [solucion EXCEPT ![Top.columna] = f]
           /\ stack' = Append(
                  [stack EXCEPT ![Len(stack)] = [@ EXCEPT !.fila = f, !.pc = "undo"]],
                  Frame(Top.columna + 1, solucion'))
    /\ op' = "probar"
    /\ UNCHANGED <<n, soluciones, exc, intento, rng, memo, pc, calls, primera, probVars,
                   creado, fresco, caller>>

\* Line 46: back from the recursive call, reset the column and go on with the
\* next row.
BtDeshacer ==
    /\ pc = "backtrack"
    /\ Top.pc = "undo"
    /\ solucion' = Deshacer(solucion, Top.columna)
    /\ stack' = [stack EXCEPT ![Len(stack)] = [@ EXCEPT !.fila = @ + 1, !.pc = "loop"]]
    /\ op' = "deshacer"
    /\ UNCHANGED <<n, soluciones, exc, intento, rng, memo, pc, calls, primera, probVars,
                   creado, fresco, caller>>

\* Line 42 runs out of rows: the call returns.
BtAgotar ==
    /\ pc = "backtrack"
    /\ Top.pc = "loop"
    /\ Top.columna < n
    /\ SiguienteFila(solucion, Top.columna, Top.fila, n) = n
    /\ Retornar(soluciones)
    /\ op' = "agotar"
    /\ UNCHANGED <<n, soluciones, exc, intento, rng, memo, probVars,
                   creado, fresco, caller>>

\* cantidad_soluciones()
CantidadSoluciones == Len(soluciones)

\* ------------------------------------------------ the shared generator
\* The generator of module random is deterministic: its state is fixed by the
\* seed and by the arguments ks of the draws made since seeding, and the value
\* of a draw by that state and the draw's argument.  memo holds the values
\* already produced, so a state seen again yields the same value.  A generator
\* that was never seeded (seed None: seeded from the operating system) yields
\* any value.
Clave(g, k) == <<g.seed, g.ks, k>>

\* v is a value _randbelow(k) can return in generator state g.
Puede(g, m, k, v) ==
    /\ v \in 0 .. (k - 1)
    /\ (g.seed # None /\ Clave(g, k) \in DOMAIN m) => m[Clave(g, k)] = v

Anotar(g, m, k, v) ==
    IF g.seed = None \/ Clave(g, k) \in DOMAIN m THEN m ELSE (Clave(g, k) :> v) @@ m

Avanzar(g, k) == IF g.seed = None THEN g ELSE [g EXCEPT !.ks = Append(@, k)]

\* The generator after c draws of randrange(k).
AvanzarVeces(g, k, c) ==
    IF g.seed = None THEN g ELSE [g EXCEPT !.ks = @ \o [i \in 1 .. c |-> k]]

\* The vectors [random.randrange(k) for _ in range(k)] can yield in generator
\* state g: the one memo fixes when every draw is known, otherwise those that
\* agree with memo.
Tiradas(g, m, k) ==
    IF g.seed # None /\ \A c \in Cols(k) : Clave(AvanzarVeces(g, k, c), k) \in DOMAIN m
    THEN {[c \in Cols(k) |-> m[Clave(AvanzarVeces(g, k, c), k)]]}
    ELSE {vec \in [Cols(k) -> Cols(k)] :
            \A c \in Cols(k) : Puede(AvanzarVeces(g, k, c), m, k, vec[c])}

\* The elements of a set of integers in ascending order (a list built by an
\* ascending loop).
RECURSIVE Ordenar(_)
Ordenar(S) ==
    IF S = {} THEN << >>
    ELSE LET m == CHOOSE x \in S : \A y \in S : x <= y
         IN  <<m>> \o Ordenar(S \ {m})

\* ------------------------------------------------- NReinas.conflictos_en
\* conflictos_en(solucion, columna, fila): the other columns that hold a row
\* (not -1) equal to fila or on a diagonal of (columna, fila).
ConflictosEnSinDiagonal(sol, columna, fila, k) ==
    Cardinality({c \in Cols(k) \ {columna} : sol[c] # -1 /\ sol[c] = fila})
ConflictosEn(sol, columna, fila, k) ==
    Cardinality({c \in Cols(k) \ {columna} :
        /\ sol[c] # -1
        /\ (sol[c] = fila \/ Abs(sol[c] - fila) = Abs(c - columna))})

\* Line 70: the columns whose own row has a conflict, ascending.
ConflictedCols(sol, k) ==
    Ordenar({c \in Cols(k) : ConflictosEn(sol, c, sol[c], k) > 0})

\* Lines 75-83: the rows of column c with the least conflict count, ascending.
MejorFilasPeores(sol, c, k) ==
    LET conf == [f \in Cols(k) |-> ConflictosEn(sol, c, f, k)]
        peor == CHOOSE m \in 0 .. k : (\E f \in Cols(k) : conf[f] = m)
                                      /\ (\A f \in Cols(k) : conf[f] <= m)
    IN  Ordenar({f \in Cols(k) : conf[f] = peor})
MejorFilas(sol, c, k) ==
    LET conf == [f \in Cols(k) |-> ConflictosEn(sol, c, f, k)]
        mejor_conf == CHOOSE m \in 0 .. k : (\E f \in Cols(k) : conf[f] = m)
                                            /\ (\A f \in Cols(k) : conf[f] >= m)
    IN  Ordenar({f \in Cols(k) : conf[f] = mejor_conf})

\* A fully assigned placement of k columns in which no two queens attack.
EsSolucion(p, k) ==
    /\ DOMAIN p = Cols(k)
    /\ \A i \in Cols(k) : p[i] \in Cols(k)
    /\ \A i, j \in Cols(k) :
        i # j => (p[i] # p[j] /\ Abs(p[i] - p[j]) # Abs(i - j))

\* ------------------------------------------ NReinas.resolver_probabilista
\* The call resolver_probabilista(mp, r) starts.
LlamarProb(mp, r) ==
    /\ pc = "idle"
    /\ n >= 1
    /\ max_pasos' = mp
    /\ restantes' = r
    /\ paso' = 0
    /\ resultado' = None
    /\ visto' = FALSE
    /\ fresco' = FALSE
    /\ pc' = "outer"
    /\ op' = "llamar"
    /\ exc' = "none"
    /\ intento' = SinIntento
    /\ UNCHANGED <<n, soluciones, rng, memo, solucion, stack, calls,
                   primera, col, creado>>

\* Lines 67-68: one more restart, a random row for each column.
ProbReiniciar ==
    /\ pc = "outer"
    /\ restantes > 0
    /\ \E vec \in Tiradas(rng, memo, n) :
        /\ solucion' = vec
        /\ memo' = IF rng.seed = None THEN memo
                   ELSE LET nuevas == {Clave(AvanzarVeces(rng, n, c), n) : c \in Cols(n)}
                        IN  [x \in DOMAIN memo \cup nuevas |->
                                IF x \in DOMAIN memo THEN memo[x]
                                ELSE vec[Len(x[2]) - Len(rng.ks)]]
        /\ visto' = (visto \/ EsSolucion(vec, n))
    /\ rng' = AvanzarVeces(rng, n, n)
    /\ restantes' = restantes - 1
    /\ paso' = 0
    /\ pc' = "inner"
    /\ op' = "reiniciar"
    /\ UNCHANGED <<n, soluciones, exc, intento, stack, calls, primera, max_pasos,
                   col, resultado, creado, fresco, caller>>

\* The locals of resolver_probabilista are gone when it returns.
SoltarLocales ==
    /\ solucion' = << >>
    /\ restantes' = 0
    /\ paso' = 0
    /\ col' = 0

\* Lines 70-72: no column has a conflict, return a copy of the placement.
ProbEncontrar ==
    /\ pc = "inner"
    /\ paso < max_pasos
    /\ ConflictedCols(solucion, n) = << >>
    /\ resultado' = <<solucion>>
    /\ SoltarLocales
    /\ pc' = "idle"
    /\ op' = "encontrar"
    /\ UNCHANGED <<n, soluciones, exc, intento, rng, memo, stack, calls,
                   primera, max_pasos, visto, creado, fresco, llamada>>

\* Lines 70-84: pick a conflicted column at random, move it to a row of least
\* conflict picked at random.
ProbMover ==
    /\ pc = "inner"
    /\ paso < max_pasos
    /\ \E conflicted_cols \in {ConflictedCols(solucion, n)} :
        /\ conflicted_cols # << >>
        /\ \E i \in 0 .. (Len(conflicted_cols) - 1) :
            /\ Puede(rng, memo, Len(conflicted_cols), i)
            /\ \E mejor_filas \in {MejorFilas(solucion, conflicted_cols[i + 1], n)} :
                LET g1 == Avanzar(rng, Len(conflicted_cols))
                    m1 == Anotar(rng, memo, Len(conflicted_cols), i)
                IN  \E j \in 0 .. (Len(mejor_filas) - 1) :
                      /\ Puede(g1, m1, Len(mejor_filas), j)
                      /\ col' = conflicted_cols[i + 1]
                      /\ solucion' = [solucion EXCEPT ![col'] = mejor_filas[j + 1]]
                      /\ rng' = Avanzar(g1, Len(mejor_filas))
                      /\ memo' = Anotar(g1, m1, Len(mejor_filas), j)
    /\ visto' = (visto \/ EsSolucion(solucion', n))
    /\ paso' = paso + 1
    /\ op' = "mover"
    /\ UNCHANGED <<n, soluciones, exc, intento, pc, stack, calls, primera, max_pasos,
                   restantes, resultado, creado, fresco, caller>>

\* Line 69 runs out of steps: on to the next restart.  The placement, the
\* step count and the column are not read again before they are overwritten.
ProbAgotar ==
    /\ pc = "inner"
    /\ paso >= max_pasos
    /\ solucion' = << >>
    /\ paso' = 0
    /\ col' = 0
    /\ pc' = "outer"
    /\ op' = "agotarPasos"
    /\ UNCHANGED <<n, soluciones, exc, intento, rng, memo, stack, calls,
                   primera, max_pasos, restantes, resultado,
                   visto, creado, fresco, caller>>

\* Line 85: the restarts are used up, return None.
ProbNinguna ==
    /\ pc = "outer"
    /\ restantes <= 0
    /\ resultado' = None
    /\ SoltarLocales
    /\ pc' = "idle"
    /\ op' = "ninguna"
    /\ UNCHANGED <<n, soluciones, exc, intento, rng, memo, stack, calls,
                   primera, max_pasos, visto, creado, fresco, llamada>>

\* The caller of the seeded runs notes the call that returned: its
\* count, and the first call's inputs and result.
Registrar ==
    /\ corrida' = corrida + 1
    /\ reg' = IF corrida = 0
              THEN [n |-> creado.n, seed |-> creado.seed,
                    max_pasos |-> llamada.max_pasos, reinicios |-> llamada.reinicios,
                    resultado |-> resultado']
              ELSE reg

\* ---------------------------------------------------- the backtracking spec
NextBT(maxn) ==
    \/ \E nn \in 1 .. maxn : Construir(nn, None)
    \/ Resolver
    \/ BtBase
    \/ BtProbar
    \/ BtDeshacer
    \/ BtAgotar

NextCuenta == NextBT(MaxNCuenta)
Next == NextBT(MaxN)

SpecCuenta == Init /\ [][NextCuenta]_vars
Spec == Init /\ [][Next]_vars

\* --------------------------------------------------- the min-conflicts spec
\* Solvers built without a seed; any number of calls.
NextProb ==
    \/ \E nn \in 1 .. MaxNProb : Construir(nn, None)
    \/ \E mp \in 0 .. MaxPasos, r \in 0 .. MaxReinicios :
        LlamarProb(mp, r) /\ UNCHANGED caller
    \/ ProbReiniciar
    \/ ProbEncontrar /\ UNCHANGED <<corrida, reg>>
    \/ ProbMover
    \/ ProbAgotar
    \/ ProbNinguna /\ UNCHANGED <<corrida, reg>>

SpecProb == Init /\ [][NextProb]_vars

\* ------------------------------------------------------ the seeded-run spec
\* Runs of "construct one solver, call resolver_probabilista once"; constructor
\* calls with n < 1 at any time until the first call has returned.  After the
\* first run, the second run repeats its inputs.
Seeds == {None, <<7>>}

NextSeed ==
    \/ \E nn \in -1 .. MaxNSeed, seed \in Seeds :
        /\ corrida < 2
        /\ (nn < 1 => corrida = 0)
        /\ (nn >= 1 => ~fresco)
        /\ (nn >= 1 => (corrida = 0 \/ (nn = reg.n /\ seed = reg.seed)))
        /\ Construir(nn, seed)
    \/ \E mp \in 0 .. MaxSorteosSeed, r \in 0 .. MaxSorteosSeed :
        /\ corrida < 2
        /\ fresco
        /\ r * (n + 2 * mp) <= MaxSorteosSeed
        /\ (corrida = 0 \/ (mp = reg.max_pasos /\ r = reg.reinicios))
        /\ LlamarProb(mp, r)
        /\ llamada' = [max_pasos |-> mp, reinicios |-> r]
        /\ UNCHANGED <<corrida, reg>>
    \/ ProbReiniciar
    \/ ProbEncontrar /\ Registrar
    \/ ProbMover
    \/ ProbAgotar
    \/ ProbNinguna /\ Registrar

SpecSeed == Init /\ [][NextSeed]_vars

\* ------------------------------------------------------------------ claims

\* The number of ways to place k non-attacking queens on a k x k board,
\* k = 1..8 (the values the specification lists).
KnownCount == <<1, 0, 0, 2, 10, 4, 40, 92>>

\* C1: for every n in 1..8, once resolver() has returned, cantidad_soluciones()
\* is the known N-Queens count for n.
C1_Cuenta ==
    (pc = "idle" /\ calls >= 1 /\ n \in 1 .. Len(KnownCount))
        => CantidadSoluciones = KnownCount[n]

C1_Witness == pc = "idle" /\ calls >= 1 /\ n = 8 /\ CantidadSoluciones = 92

\* C2: at every point during and after resolver(), every stored placement is
\* fully assigned with rows in 0..n-1 and has no two columns on the same row or
\* diagonal.
C2_Validas ==
    n >= 1 => \A i \in 1 .. Len(soluciones) : EsSolucion(soluciones[i], n)

C2_Witness == pc = "backtrack" /\ n = 6 /\ Len(soluciones) >= 3

\* Lexicographic order of placements, column 0 most significant.
LexMenor(a, b, k) ==
    \E c \in Cols(k) : a[c] < b[c] /\ \A d \in Cols(c) : a[d] = b[d]

Creciente ==
    \A i \in 1 .. (Len(soluciones) - 1) : LexMenor(soluciones[i], soluciones[i + 1], n)

EsPrefijo(s, u) == Len(s) <= Len(u) /\ SubSeq(u, 1, Len(s)) = s

\* C3: at every point of the solve the stored solutions are in strictly
\* increasing lexicographic order (so none appears twice), and a step of the
\* search only appends: what was stored stays, unchanged and in place.
C3_Orden ==
    /\ []Creciente
    /\ [][pc = "backtrack" => EsPrefijo(soluciones, soluciones')]_vars

C3_Witness == pc = "backtrack" /\ n = 5 /\ Len(soluciones) >= 4 /\ calls >= 1

\* C4: when a second or later resolver() call on the same solver returns, the
\* solution list equals the one the first call left (same solutions, same
\* order).
C4_Idempotente ==
    (pc = "idle" /\ calls >= 2) => soluciones = primera

C4_Witness == pc = "idle" /\ calls >= 2 /\ n = 5 /\ Len(soluciones) = 10

\* The innermost _backtrack call is about to return.
PorRetornar ==
    /\ pc = "backtrack"
    /\ Top.pc = "loop"
    /\ (Top.columna = n \/ SiguienteFila(solucion, Top.columna, Top.fila, n) = n)

\* C10: on entry to _backtrack(columna, solucion) the columns left of columna
\* hold pairwise non-attacking rows and the others hold -1; a call returns with
\* the placement it was entered with; the outermost call returns with all -1.
C10_Backtrack ==
    /\ (pc = "backtrack" /\ Top.pc = "loop" /\ Top.fila = 0) =>
        /\ \A c \in Cols(Top.columna) : solucion[c] \in Cols(n)
        /\ \A c, d \in Cols(Top.columna) :
            c # d => /\ solucion[c] # solucion[d]
                     /\ Abs(solucion[c] - solucion[d]) # Abs(c - d)
        /\ \A c \in Top.columna .. (n - 1) : solucion[c] = -1
    /\ PorRetornar => solucion = Top.entrada
    /\ (PorRetornar /\ Len(stack) = 1) => solucion = Vacia(n)

C10_Witness ==
    PorRetornar /\ Len(stack) = 4 /\ Top.fila > 1 /\ n = 6 /\ Len(soluciones) >= 1

\* C5: resolver_probabilista returns None or a fully assigned placement of
\* length n with no two columns on the same row or diagonal.
C5_Resultado ==
    (pc = "idle" /\ op \in {"encontrar", "ninguna"})
        => (resultado = None \/ (Len(resultado) = 1 /\ EsSolucion(resultado[1], n)))

C5_Witness == pc = "idle" /\ op = "encontrar" /\ n = 4 /\ resultado # None

\* C6: with max_pasos >= 1, when some placement held during the call (an
\* initial one, or one after any move, the last move of a restart included)
\* had no conflict, the call returns a solution; it returns None only when
\* none had.
C6_PrimeraEncontrada ==
    (pc = "idle" /\ op \in {"encontrar", "ninguna"} /\ max_pasos >= 1 /\ visto)
        => resultado # None

\* C7: a constructor call with n < 1 raises ValueError and changes nothing: the
\* solver the caller holds, its solution list and the shared generator stay as
\* they were, seed or no seed; with n >= 1 it yields a solver of that size with
\* an empty solution list.
C7_Construccion ==
    [][op' = "construir" =>
        IF intento'.n < 1
        THEN /\ exc' = "ValueError"
             /\ UNCHANGED <<n, soluciones, rng, memo, calls, primera, creado, fresco>>
        ELSE /\ exc' = "none"
             /\ n' = intento'.n
             /\ soluciones' = << >>]_vars

C7_Witness ==
    /\ op = "construir"
    /\ exc = "ValueError"
    /\ intento.n < 1
    /\ intento.seed # None
    /\ rng.seed = None

\* C8: a run that builds a solver with the n and the seed of the first run and
\* makes the same call returns what the first run returned.
C8_Determinista ==
    ( /\ pc = "idle"
      /\ op \in {"encontrar", "ninguna"}
      /\ corrida >= 2
      /\ creado.seed # None
      /\ creado.n = reg.n /\ creado.seed = reg.seed
      /\ llamada.max_pasos = reg.max_pasos /\ llamada.reinicios = reg.reinicios )
        => resultado = reg.resultado

C8_Witness ==
    /\ pc = "idle"
    /\ corrida >= 2
    /\ creado.seed # None
    /\ creado.n = 4 /\ reg.n = 4 /\ reg.seed = creado.seed
    /\ llamada.max_pasos >= 1
    /\ resultado # None

\* C9: a move picks a column that has a conflict, leaves it on a row whose
\* conflict count is the least over the rows 0..n-1 of that column (so not
\* above that of the row it held), and changes no other column.
C9_Movimiento ==
    [][op' = "mover" =>
        /\ ConflictosEn(solucion, col', solucion[col'], n) > 0
        /\ \A f \in Cols(n) :
            ConflictosEn(solucion', col', solucion'[col'], n)
                <= ConflictosEn(solucion, col', f, n)
        /\ ConflictosEn(solucion', col', solucion'[col'], n)
                <= ConflictosEn(solucion, col', solucion[col'], n)
        /\ \A c \in Cols(n) \ {col'} : solucion'[c] = solucion[c]]_vars

C9_Witness == op = "mover" /\ n = 4 /\ paso = 2 /\ visto

====
